---- MODULE Spec2Model ----
(***************************************************************************)
(* GPSNavigator (src/gps_navigation.py): the adjacency-list road graph,    *)
(* add_road, the Dijkstra search with lazy deletion, path reconstruction,  *)
(* get_turn_by_turn_directions and calculate_route_time, together with the *)
(* traffic-scenario weight update and the all-pairs helper of              *)
(* src/examples/advanced_demo.py.  A dijkstra call is modelled as one      *)
(* action (Spec, SpecRepeat, SpecTraffic), pass by pass (SpecSteps), and   *)
(* as two calls running side by side (SpecBatch).                          *)
(*                                                                         *)
(* Distances are integers counting tenths of a kilometre, and every road   *)
(* length is a whole number of kilometres, so that the products with the   *)
(* traffic multipliers 2.5, 3.0 and 1.8 are exact; float('infinity') is    *)
(* the sentinel Infinity.  The dict self.graph is a function whose DOMAIN  *)
(* is the set of keys; it is a defaultdict(list), so reading self.graph[n] *)
(* for a missing key n inserts n with an empty list.                       *)
(***************************************************************************)
EXTENDS Integers, Sequences, FiniteSets, TLC

VARIABLES graph, node_names, ret

vars == <<graph, node_names, ret>>

(* ------------------------------ bounds -------------------------------- *)

\* number of entries of the locations list registered by setup_city_map
NumLocations == 3

\* largest number of add_road calls made on one navigator
MaxRoads == 3

\* road lengths handed to add_road range over MinWeight .. MaxWeight kilometres
MaxWeight == 1

\* largest number of add_road calls before the analyzer's scenarios are run
MaxScenarioRoads == 2

\* largest number of add_road calls before a query is repeated or directions
\* are asked for
MaxQueryRoads == 2

\* longest path handed to get_turn_by_turn_directions
MaxPathLen == 3

\* distances handed to calculate_route_time range over
\* -MaxRouteDistance .. MaxRouteDistance tenths of a kilometre
MaxRouteDistance == 600

\* speeds handed to calculate_route_time range over -MaxSpeed .. MaxSpeed km/h
MaxSpeed == 30

\* largest number of add_road calls before two queries are run side by side
MaxBatchRoads == 1

\* add_road does not look at the sign of the distance it is given
MinWeight == 0 - 1

\* float('infinity')
Infinity == 1000000

Locations == 0 .. (NumLocations - 1)

\* an id that setup_city_map never registered (999 and -1 in basic_usage.py)
AbsentId == NumLocations

QueryIds == Locations \cup {AbsentId}

Weights == {10 * w : w \in MinWeight .. MaxWeight}

(* --------------------------- the graph store -------------------------- *)

\* self.graph[n] read through the defaultdict: the list that is returned
Adj(g, n) == IF n \in DOMAIN g THEN g[n] ELSE <<>>

\* self.graph[n] read through the defaultdict: the mapping afterwards
Touch(g, n) == IF n \in DOMAIN g THEN g ELSE g @@ (n :> <<>>)

\* self.graph[n].append(entry)
AppendEntry(g, n, entry) == [Touch(g, n) EXCEPT ![n] = Append(@, entry)]

\* add_road without line 61: the road is recorded at from_node only
add_road_OneWay(g, from_node, to_node, distance) ==
    Touch(AppendEntry(g, from_node, <<to_node, distance>>), to_node)

add_road(g, from_node, to_node, distance) ==
    AppendEntry(AppendEntry(g, from_node, <<to_node, distance>>),
                to_node, <<from_node, distance>>)

\* number of (neighbor, weight) entries over all adjacency lists
RECURSIVE SumLen(_, _)
SumLen(g, keys) ==
    IF keys = {} THEN 0
    ELSE LET k == CHOOSE x \in keys : TRUE
         IN  Len(g[k]) + SumLen(g, keys \ {k})

EntryCount(g) == SumLen(g, DOMAIN g)

(* ------------------------------ dijkstra ------------------------------ *)

\* heapq orders the (distance, node) tuples lexicographically
TupleLess(e, f) == e[1] < f[1] \/ (e[1] = f[1] /\ e[2] < f[2])

\* a frontier that hands out its largest entry
HeapMin_Largest(pq) == CHOOSE e \in pq : \A f \in pq : e = f \/ TupleLess(f, e)

\* the entry heapq.heappop returns
HeapMin(pq) == CHOOSE e \in pq : \A f \in pq : e = f \/ TupleLess(e, f)

\* lines 76-89 with a line 89 that reports len(self.graph)
DijkstraInit_CountsKeys(g, start, end) ==
    [graph          |-> g,
     start          |-> start,
     end            |-> end,
     distances      |-> [n \in (DOMAIN g) \cup {start} |->
                            IF n = start THEN 0 ELSE Infinity],
     previous       |-> <<>>,
     visited        |-> {},
     priority_queue |-> {<<0, start>>},
     steps          |-> << <<"Starting", start, 0>>, <<"Destination", end, 0>>,
                           <<"Initializing", start, Cardinality(DOMAIN g)>> >>,
     pc             |-> "loop"]

\* lines 76-89 without line 77: the start keeps the distance infinity
DijkstraInit_NoZero(g, start, end) ==
    [graph          |-> g,
     start          |-> start,
     end            |-> end,
     distances      |-> [n \in (DOMAIN g) \cup {start} |-> Infinity],
     previous       |-> <<>>,
     visited        |-> {},
     priority_queue |-> {<<0, start>>},
     steps          |-> << <<"Starting", start, 0>>, <<"Destination", end, 0>>,
                           <<"Initializing", start, 0>> >>,
     pc             |-> "loop"]

\* lines 76-89: the scratch state of one call.  The trace lines are kept as
\* tuples <<kind, node, distance>>.
DijkstraInit(g, start, end) ==
    [graph          |-> g,
     start          |-> start,
     end            |-> end,
     distances      |-> [n \in (DOMAIN g) \cup {start} |->
                            IF n = start THEN 0 ELSE Infinity],
     previous       |-> <<>>,
     visited        |-> {},
     priority_queue |-> {<<0, start>>},
     steps          |-> << <<"Starting", start, 0>>, <<"Destination", end, 0>>,
                           <<"Initializing", start, 0>> >>,
     pc             |-> "loop"]

\* lines 114-125 without the test of line 114
RelaxOne_NoVisitedTest(st, current_node, current_distance, entry) ==
    LET neighbor      == entry[1]
        road_distance == entry[2]
        new_distance  == current_distance + road_distance
    IN  IF new_distance < st.distances[neighbor]
        THEN [st EXCEPT
                !.distances      = [@ EXCEPT ![neighbor] = new_distance],
                !.previous       = IF neighbor \in DOMAIN @
                                   THEN [@ EXCEPT ![neighbor] = current_node]
                                   ELSE @ @@ (neighbor :> current_node),
                !.priority_queue = @ \cup {<<new_distance, neighbor>>},
                !.steps          = Append(@, <<"Updated", neighbor, new_distance>>)]
        ELSE st

\* lines 114-125 with "<=" for the "<" of line 117
RelaxOne_OrEqual(st, current_node, current_distance, entry) ==
    LET neighbor      == entry[1]
        road_distance == entry[2]
        new_distance  == current_distance + road_distance
    IN  IF neighbor \notin st.visited /\ new_distance <= st.distances[neighbor]
        THEN [st EXCEPT
                !.distances      = [@ EXCEPT ![neighbor] = new_distance],
                !.previous       = IF neighbor \in DOMAIN @
                                   THEN [@ EXCEPT ![neighbor] = current_node]
                                   ELSE @ @@ (neighbor :> current_node),
                !.priority_queue = @ \cup {<<new_distance, neighbor>>},
                !.steps          = Append(@, <<"Updated", neighbor, new_distance>>)]
        ELSE st

\* lines 114-125 with previous.setdefault(neighbor, current_node) for line
\* 119: a predecessor once recorded is kept
RelaxOne_KeepPrevious(st, current_node, current_distance, entry) ==
    LET neighbor      == entry[1]
        road_distance == entry[2]
        new_distance  == current_distance + road_distance
    IN  IF neighbor \notin st.visited /\ new_distance < st.distances[neighbor]
        THEN [st EXCEPT
                !.distances      = [@ EXCEPT ![neighbor] = new_distance],
                !.previous       = IF neighbor \in DOMAIN @ THEN @
                                   ELSE @ @@ (neighbor :> current_node),
                !.priority_queue = @ \cup {<<new_distance, neighbor>>},
                !.steps          = Append(@, <<"Updated", neighbor, new_distance>>)]
        ELSE st

\* lines 114-125 with previous[neighbor] = start for line 119
RelaxOne_PreviousIsStart(st, current_node, current_distance, entry) ==
    LET neighbor      == entry[1]
        road_distance == entry[2]
        new_distance  == current_distance + road_distance
    IN  IF neighbor \notin st.visited /\ new_distance < st.distances[neighbor]
        THEN [st EXCEPT
                !.distances      = [@ EXCEPT ![neighbor] = new_distance],
                !.previous       = IF neighbor \in DOMAIN @
                                   THEN [@ EXCEPT ![neighbor] = st.start]
                                   ELSE @ @@ (neighbor :> st.start),
                !.priority_queue = @ \cup {<<new_distance, neighbor>>},
                !.steps          = Append(@, <<"Updated", neighbor, new_distance>>)]
        ELSE st

\* lines 114-125: one neighbor of the node being explored
RelaxOne(st, current_node, current_distance, entry) ==
    LET neighbor      == entry[1]
        road_distance == entry[2]
        new_distance  == current_distance + road_distance
    IN  IF neighbor \notin st.visited /\ new_distance < st.distances[neighbor]
        THEN [st EXCEPT
                !.distances      = [@ EXCEPT ![neighbor] = new_distance],
                !.previous       = IF neighbor \in DOMAIN @
                                   THEN [@ EXCEPT ![neighbor] = current_node]
                                   ELSE @ @@ (neighbor :> current_node),
                !.priority_queue = @ \cup {<<new_distance, neighbor>>},
                !.steps          = Append(@, <<"Updated", neighbor, new_distance>>)]
        ELSE st

\* line 113: the for loop over self.graph[current_node], from entry i on
RECURSIVE Relax(_, _, _, _, _)
Relax(st, current_node, current_distance, adj, i) ==
    IF i > Len(adj) THEN st
    ELSE Relax(RelaxOne(st, current_node, current_distance, adj[i]),
               current_node, current_distance, adj, i + 1)

\* lines 91-125 without the break of line 110: the neighbors of the
\* destination are explored as well
DijkstraStep_NoBreak(st) ==
    IF st.priority_queue = {} THEN [st EXCEPT !.pc = "done"]
    ELSE
      LET e                == HeapMin(st.priority_queue)
          current_distance == e[1]
          current_node     == e[2]
          popped           == [st EXCEPT !.priority_queue = @ \ {e}]
      IN  IF current_node \in st.visited THEN popped
          ELSE
            LET explored == [popped EXCEPT
                               !.visited = @ \cup {current_node},
                               !.steps   = Append(@, <<"Exploring", current_node,
                                                       current_distance>>)]
                reached  == IF current_node = st.end
                            THEN [explored EXCEPT
                                    !.steps = Append(@, <<"Reached", st.end, 0>>)]
                            ELSE explored
            IN  Relax([reached EXCEPT !.graph = Touch(@, current_node)],
                      current_node, current_distance,
                      Adj(st.graph, current_node), 1)

\* lines 91-125 without lines 95-96: a popped entry is explored even when its
\* node is in visited
DijkstraStep_NoSkip(st) ==
    IF st.priority_queue = {} THEN [st EXCEPT !.pc = "done"]
    ELSE
      LET e                == HeapMin(st.priority_queue)
          current_distance == e[1]
          current_node     == e[2]
          popped           == [st EXCEPT !.priority_queue = @ \ {e}]
          explored == [popped EXCEPT
                         !.visited = @ \cup {current_node},
                         !.steps   = Append(@, <<"Exploring", current_node,
                                                 current_distance>>)]
      IN  IF current_node = st.end
          THEN [explored EXCEPT
                  !.steps = Append(@, <<"Reached", st.end, 0>>),
                  !.pc    = "done"]
          ELSE Relax([explored EXCEPT !.graph = Touch(@, current_node)],
                     current_node, current_distance,
                     Adj(st.graph, current_node), 1)

\* lines 91-125: one pass of the while loop
DijkstraStep(st) ==
    IF st.priority_queue = {} THEN [st EXCEPT !.pc = "done"]
    ELSE
      LET e                == HeapMin(st.priority_queue)
          current_distance == e[1]
          current_node     == e[2]
          popped           == [st EXCEPT !.priority_queue = @ \ {e}]
      IN  IF current_node \in st.visited THEN popped
          ELSE
            LET explored == [popped EXCEPT
                               !.visited = @ \cup {current_node},
                               !.steps   = Append(@, <<"Exploring", current_node,
                                                       current_distance>>)]
            IN  IF current_node = st.end
                THEN [explored EXCEPT
                        !.steps = Append(@, <<"Reached", st.end, 0>>),
                        !.pc    = "done"]
                ELSE Relax([explored EXCEPT !.graph = Touch(@, current_node)],
                           current_node, current_distance,
                           Adj(st.graph, current_node), 1)

RECURSIVE DijkstraLoop(_)
DijkstraLoop(st) == IF st.pc = "done" THEN st ELSE DijkstraLoop(DijkstraStep(st))

\* lines 128-132: the walk over previous, before path.reverse()
RECURSIVE WalkBack(_, _)
WalkBack(previous, current) ==
    IF current \in DOMAIN previous
    THEN <<current>> \o WalkBack(previous, previous[current])
    ELSE <<current>>

\* line 133
Reverse(s) == [i \in 1 .. Len(s) |-> s[Len(s) + 1 - i]]

\* lines 127-151 with "if not path:" for line 136
DijkstraResult_NoStartCheck(st) ==
    LET path == Reverse(WalkBack(st.previous, st.end))
    IN  IF path = <<>>
        THEN [raised |-> "none", path |-> <<>>, distance |-> Infinity,
              visited |-> st.visited, steps |-> st.steps, success |-> FALSE,
              graph |-> st.graph]
        ELSE [raised |-> "none", path |-> path,
              distance |-> IF st.end \in DOMAIN st.distances
                           THEN st.distances[st.end] ELSE Infinity,
              visited |-> st.visited, steps |-> st.steps, success |-> TRUE,
              graph |-> st.graph]

\* lines 127-151: the value returned from the scratch state after the loop
DijkstraResult(st) ==
    LET path == Reverse(WalkBack(st.previous, st.end))
    IN  IF path = <<>> \/ path[1] # st.start
        THEN [raised |-> "none", path |-> <<>>, distance |-> Infinity,
              visited |-> st.visited, steps |-> st.steps, success |-> FALSE,
              graph |-> st.graph]
        ELSE [raised |-> "none", path |-> path,
              distance |-> st.distances[st.end],
              visited |-> st.visited, steps |-> st.steps, success |-> TRUE,
              graph |-> st.graph]

\* lines 133-151: the value returned once the walk of lines 128-132 has
\* filled path (still in the order end .. start)
ReturnValue(st, path) ==
    LET reversed == Reverse(path)
    IN  IF reversed = <<>> \/ reversed[1] # st.start
        THEN [raised |-> "none", path |-> <<>>, distance |-> Infinity,
              visited |-> st.visited, steps |-> st.steps, success |-> FALSE,
              graph |-> st.graph]
        ELSE [raised |-> "none", path |-> reversed,
              distance |-> st.distances[st.end],
              visited |-> st.visited, steps |-> st.steps, success |-> TRUE,
              graph |-> st.graph]

\* what a call that raised leaves behind
Raised(g, exc) ==
    [raised |-> exc, path |-> <<>>, distance |-> Infinity, visited |-> {},
     steps |-> <<>>, success |-> FALSE, graph |-> g]

\* line 87 without line 88: only the start is looked up
NamesKnown_StartOnly(names, start, end) == start \in names

\* lines 87-88: self.node_names[start] and self.node_names[end] are plain
\* dict lookups
NamesKnown(names, start, end) == start \in names /\ end \in names

\* lines 63-151.  The field graph is self.graph when the call is over.
dijkstra(g, names, start, end) ==
    IF ~NamesKnown(names, start, end) THEN Raised(g, "KeyError")
    ELSE DijkstraResult(DijkstraLoop(DijkstraInit(g, start, end)))

\* least element of a non-empty set of integers
Min(S) == CHOOSE x \in S : \A y \in S : x <= y

\* get_turn_by_turn_directions, lines 170-174: the distance of the first entry
\* of self.graph[current] that leads to next_node; found is FALSE when the
\* loop ends with distance = None.  The lookup itself is Adj/Touch.
FindDistance(g, current, next_node) ==
    LET adj  == Adj(g, current)
        hits == {i \in 1 .. Len(adj) : adj[i][1] = next_node}
    IN  IF hits = {} THEN [found |-> FALSE, distance |-> 0]
        ELSE [found |-> TRUE, distance |-> adj[Min(hits)][2]]

\* the numbering i + 1: the first segment's line is numbered like the start
direction_num_FromOne(i) == i + 1

\* line 181, for the segment i (counted from 0)
direction_num(i) == i + 2

\* lines 164-185: the pass of the for loop for segment acc.i (counted from 0).
\* A line "n. Verb name (d.dkm)" is the record of n, the verb, the location
\* and d in tenths of a kilometre; the line "1. Start at name" has no distance.
\* Adding None to total_distance (line 176) raises TypeError, and a location
\* without a name raises KeyError when its line is formatted.
DirectionsPass(acc, names, path) ==
    LET i         == acc.i
        current   == path[i + 1]
        next_node == path[i + 2]
        looked    == FindDistance(acc.graph, current, next_node)
        touched   == Touch(acc.graph, current)
        first     == IF i = 0
                     THEN << [num |-> 1, verb |-> "Start at", node |-> current] >>
                     ELSE << >>
        verb      == IF i = Len(path) - 2 THEN "Arrive at" ELSE "Continue to"
        line      == [num |-> direction_num(i), verb |-> verb,
                      node |-> next_node, distance |-> looked.distance]
    IN  IF ~looked.found
        THEN [acc EXCEPT !.graph = touched, !.raised = "TypeError"]
        ELSE IF (i = 0 /\ current \notin names) \/ next_node \notin names
        THEN [acc EXCEPT !.graph = touched, !.raised = "KeyError",
                         !.total_distance = @ + looked.distance]
        ELSE [graph          |-> touched,
              raised         |-> "none",
              directions     |-> acc.directions \o first \o <<line>>,
              total_distance |-> acc.total_distance + looked.distance,
              i              |-> i + 1]

\* line 164: the for loop over the segments
RECURSIVE DirectionsLoop(_, _, _)
DirectionsLoop(acc, names, path) ==
    IF acc.raised # "none" \/ acc.i >= Len(path) - 1 THEN acc
    ELSE DirectionsLoop(DirectionsPass(acc, names, path), names, path)

\* lines 157-187.  The field graph is self.graph when the call is over; a
\* call that raised returns no directions.
get_turn_by_turn_directions(g, names, path) ==
    IF Len(path) < 2
    THEN [graph |-> g, raised |-> "none", directions |-> <<>>]
    ELSE LET acc == DirectionsLoop([graph |-> g, raised |-> "none",
                                    directions |-> <<>>, total_distance |-> 0,
                                    i |-> 0], names, path)
         IN  [graph      |-> acc.graph,
              raised     |-> acc.raised,
              directions |-> IF acc.raised = "none" THEN acc.directions
                             ELSE <<>>]

\* greatest common divisor of two naturals
RECURSIVE GCD(_, _)
GCD(a, b) == IF b = 0 THEN a ELSE GCD(b, a % b)

Abs(x) == IF x < 0 THEN 0 - x ELSE x

\* the number n / d (d # 0) in lowest terms with a positive denominator; the
\* rounding of the float arithmetic is left out
Fraction(n, d) ==
    LET g == GCD(Abs(n), Abs(d))
        s == IF d < 0 THEN 0 - 1 ELSE 1
    IN  [num |-> (s * n) \div g, den |-> (s * d) \div g]

\* q / k and q * k for a fraction q and an integer k
Over(q, k)  == Fraction(q.num, q.den * k)
Times(q, k) == Fraction(q.num * k, q.den)

\* line 153: avg_speed_kmh=30
DefaultSpeed == 30

\* line 155: the factor that converts hours to minutes
MinutesPerHour == 60

\* line 155 without "* 60": the time in hours
calculate_route_time_Hours(distance, avg_speed_kmh) ==
    IF avg_speed_kmh = 0 THEN [raised |-> "ZeroDivisionError"]
    ELSE [raised  |-> "none",
          minutes |-> Over(Fraction(distance, 10), avg_speed_kmh)]

\* lines 153-155, for a distance in tenths of a kilometre: the division
\* raises ZeroDivisionError for the speed 0
calculate_route_time(distance, avg_speed_kmh) ==
    IF avg_speed_kmh = 0 THEN [raised |-> "ZeroDivisionError"]
    ELSE [raised  |-> "none",
          minutes |-> Times(Over(Fraction(distance, 10), avg_speed_kmh),
                            MinutesPerHour)]

(* --------------------------- advanced_demo.py -------------------------- *)

\* lines 159-169: one cell of distance_matrix and path_matrix
AllPairsEntry(g, names, start, end) ==
    IF start = end
    THEN [distance |-> 0, path |-> <<start>>, graph |-> g]
    ELSE LET result == dijkstra(g, names, start, end)
         IN  IF result.success
             THEN [distance |-> result.distance, path |-> result.path,
                   graph |-> result.graph]
             ELSE [distance |-> Infinity, path |-> <<>>, graph |-> result.graph]

\* lines 158-169: one pass of the inner loop.  acc holds self.graph, the two
\* matrices (indexed by the pair <<start, end>>) and the number k of pairs
\* done; the pairs are taken row by row in the order of the ids
AllPairsPass(acc, names) ==
    LET n     == Cardinality(names)
        start == acc.k \div n
        end   == acc.k % n
        cell  == AllPairsEntry(acc.graph, names, start, end)
    IN  [graph           |-> cell.graph,
         distance_matrix |-> acc.distance_matrix @@
                             (<<start, end>> :> cell.distance),
         path_matrix     |-> acc.path_matrix @@ (<<start, end>> :> cell.path),
         k               |-> acc.k + 1]

\* lines 154-169: the two nested loops
RECURSIVE AllPairsLoop(_, _)
AllPairsLoop(acc, names) ==
    IF acc.k >= Cardinality(names) * Cardinality(names) THEN acc
    ELSE AllPairsLoop(AllPairsPass(acc, names), names)

\* lines 143-198
find_all_shortest_paths(g, names) ==
    AllPairsLoop([graph |-> g, distance_matrix |-> <<>>, path_matrix |-> <<>>,
                  k |-> 0], names)

\* lines 206-211; multiplier and affected_roads in tenths
scenarios ==
    << [name |-> "Rush Hour",      multiplier |-> 25, affected_roads |-> 6],
       [name |-> "Construction",   multiplier |-> 30, affected_roads |-> 2],
       [name |-> "Weather Delay",  multiplier |-> 18, affected_roads |-> 8],
       [name |-> "Normal Traffic", multiplier |-> 10, affected_roads |-> 0] >>

\* GPSNavigator() of line 224: the graph as the constructor builds it, which
\* is the navigator's own graph without the keys a lookup has inserted
ConstructedGraph(g) == [n \in {k \in DOMAIN g : g[k] # <<>>} |-> g[n]]

\* lines 229-230: the positions <<node, index>> of all_edges
AllEdges(g) == UNION {{<<n, i>> : i \in 1 .. Len(g[n])} : n \in DOMAIN g}

\* line 228 and the min of line 233
SampleSize(g, scenario) ==
    LET affected_edges == (Cardinality(DOMAIN g) * scenario.affected_roads) \div 10
        total          == Cardinality(AllEdges(g))
    IN  IF affected_edges < total THEN affected_edges ELSE total

\* line 233: what random.sample can return (nothing is sampled when the
\* multiplier is 1.0, line 227)
Samples(g, scenario) ==
    IF scenario.multiplier = 10 THEN {<<>>}
    ELSE {s \in [1 .. SampleSize(g, scenario) -> AllEdges(g)] :
             \A i, j \in DOMAIN s : i # j => s[i] # s[j]}

\* lines 240-242 (and 244-246): every entry of graph[node] that leads to
\* neighbor gets the new distance
SetDistance(g, node, neighbor, new_dist) ==
    [g EXCEPT ![node] = [i \in 1 .. Len(@) |->
                            IF @[i][1] = neighbor THEN <<neighbor, new_dist>>
                            ELSE @[i]]]

\* lines 235-246, from the j-th sampled edge on; g0 is the graph all_edges
\* was read from
RECURSIVE ApplyEdges(_, _, _, _, _)
ApplyEdges(g, g0, multiplier, sample, j) ==
    IF j > Len(sample) THEN g
    ELSE LET node          == sample[j][1]
             neighbor      == g0[node][sample[j][2]][1]
             original_dist == g0[node][sample[j][2]][2]
             new_dist      == (original_dist * multiplier) \div 10
         IN  ApplyEdges(SetDistance(SetDistance(g, node, neighbor, new_dist),
                                    neighbor, node, new_dist),
                        g0, multiplier, sample, j + 1)

\* lines 226-246
ApplyScenario(g, scenario, sample) ==
    IF scenario.multiplier = 10 THEN g
    ELSE ApplyEdges(g, g, scenario.multiplier, sample, 1)

(* ----------------------------- operations ----------------------------- *)

\* what the caller of dijkstra gets: the result dict, or the exception
Returns(r) == [f \in DOMAIN r \ {"graph"} |-> r[f]]

\* after lines 15-17 and 40-42: the names are registered, no road is added
Init ==
    /\ graph = <<>>
    /\ node_names = Locations
    /\ ret = [op |-> "init"]

\* one add_road call (line 56 of setup_city_map, or a later caller), while
\* fewer than limit roads are recorded
AddRoadUpTo(limit) ==
    \E from_node \in Locations, to_node \in Locations, distance \in Weights :
        /\ EntryCount(graph) < 2 * limit
        /\ graph' = add_road(graph, from_node, to_node, distance)
        /\ ret' = [op |-> "add_road"]
        /\ UNCHANGED node_names

\* one dijkstra call
Dijkstra ==
    \E start \in QueryIds, end \in QueryIds :
        LET r == dijkstra(graph, node_names, start, end)
        IN  /\ graph' = r.graph
            /\ ret' = [op |-> "dijkstra", start |-> start, end |-> end,
                       result |-> Returns(r)]
            /\ UNCHANGED node_names

AddRoad == AddRoadUpTo(MaxRoads)

\* AdvancedGPSAnalyzer.find_all_shortest_paths
FindAllShortestPaths ==
    LET m == find_all_shortest_paths(graph, node_names)
    IN  /\ graph' = m.graph
        /\ ret' = [op |-> "all_pairs", distance_matrix |-> m.distance_matrix,
                   path_matrix |-> m.path_matrix]
        /\ UNCHANGED node_names

Next == AddRoad \/ Dijkstra \/ FindAllShortestPaths

Spec == Init /\ [][Next]_vars

\* simulate_traffic_scenarios is between two scenarios of its loop (line 219)
InScenarios == ret.op = "traffic" /\ ret.scenario < Len(scenarios)

\* an add_road call made while simulate_traffic_scenarios is not running
ScenarioAddRoad == ~InScenarios /\ AddRoadUpTo(MaxScenarioRoads)

\* one pass of the loop of simulate_traffic_scenarios (lines 219-260): the
\* scenarios are taken in the order of the list, sample is what random.sample
\* returned, and test_routes holds the one route <<start, end>>, chosen when
\* the method is entered
SimulateTrafficScenario ==
    \E start \in Locations, end \in Locations :
      LET k     == IF InScenarios THEN ret.scenario + 1 ELSE 1
          fresh == ConstructedGraph(graph)
      IN  /\ InScenarios => (start = ret.start /\ end = ret.end)
          /\ \E sample \in Samples(fresh, scenarios[k]) :
                LET modified_nav   == ApplyScenario(fresh, scenarios[k], sample)
                    normal_result  == dijkstra(graph, node_names, start, end)
                    traffic_result == dijkstra(modified_nav, node_names,
                                               start, end)
                IN  /\ graph' = normal_result.graph
                    /\ ret' = [op |-> "traffic", scenario |-> k,
                               start |-> start, end |-> end,
                               fresh |-> fresh,
                               modified |-> traffic_result.graph,
                               normal_result |-> Returns(normal_result),
                               traffic_result |-> Returns(traffic_result)]
                    /\ UNCHANGED node_names

NextTraffic == ScenarioAddRoad \/ SimulateTrafficScenario

SpecTraffic == Init /\ [][NextTraffic]_vars

\* an add_road call on a navigator whose queries are being repeated
RepeatAddRoad == AddRoadUpTo(MaxQueryRoads)

\* one dijkstra call in a sequence of calls made with no add_road in between.
\* ret.first keeps the arguments and the result of the first call of the
\* sequence and self.graph as that call left it; ret.again says that this
\* call has the arguments of the first one, ret.others that a call with
\* other arguments was made since the first one.  The result of a call with
\* other arguments is dropped by the caller.
RepeatDijkstra ==
    \E start \in QueryIds, end \in QueryIds :
        LET r       == dijkstra(graph, node_names, start, end)
            isFirst == ret.op # "repeat"
            first   == IF isFirst
                       THEN [start |-> start, end |-> end,
                             result |-> Returns(r), graph |-> r.graph]
                       ELSE ret.first
            again   == ~isFirst /\ start = first.start /\ end = first.end
        IN  /\ graph' = r.graph
            /\ ret' = [op     |-> "repeat",
                       first  |-> first,
                       again  |-> again,
                       others |-> ~isFirst /\ (ret.others \/ ~again),
                       result |-> IF isFirst \/ again THEN Returns(r)
                                  ELSE first.result]
            /\ UNCHANGED node_names

NextRepeat == RepeatAddRoad \/ RepeatDijkstra

SpecRepeat == Init /\ [][NextRepeat]_vars

\* the lists of ids a caller can hand to get_turn_by_turn_directions
Paths == UNION {[1 .. k -> QueryIds] : k \in 0 .. MaxPathLen}

\* an add_road call on a navigator that is asked for directions
DirectionsAddRoad == AddRoadUpTo(MaxQueryRoads)

\* one get_turn_by_turn_directions call
GetDirections ==
    \E path \in Paths :
        LET r == get_turn_by_turn_directions(graph, node_names, path)
        IN  /\ graph' = r.graph
            /\ ret' = [op |-> "directions", path |-> path,
                       raised |-> r.raised, directions |-> r.directions]
            /\ UNCHANGED node_names

NextDirections == DirectionsAddRoad \/ GetDirections

SpecDirections == Init /\ [][NextDirections]_vars

\* an add_road call on a navigator that is asked for routes
RouteAddRoad == AddRoadUpTo(MaxQueryRoads)

\* a route with its directions (basic_usage.py lines 68-72, and
\* print_route_summary): a dijkstra call, and for a successful result the
\* get_turn_by_turn_directions call on result['path']
RouteDirections ==
    \E start \in QueryIds, end \in QueryIds :
        LET result == dijkstra(graph, node_names, start, end)
            d      == get_turn_by_turn_directions(result.graph, node_names,
                                                  result.path)
        IN  /\ graph' = IF result.success THEN d.graph ELSE result.graph
            /\ ret' = [op         |-> "route",
                       start      |-> start,
                       end        |-> end,
                       result     |-> Returns(result),
                       asked      |-> result.success,
                       raised     |-> IF result.success THEN d.raised
                                      ELSE "none",
                       directions |-> IF result.success THEN d.directions
                                      ELSE <<>>]
            /\ UNCHANGED node_names

NextRoute == RouteAddRoad \/ RouteDirections

SpecRoute == Init /\ [][NextRoute]_vars

\* a dijkstra call is between two of its steps
InCall == ret.op \in {"begin", "pass", "walk"}

\* an add_road call made while no dijkstra call is running
StepAddRoad == ~InCall /\ AddRoadUpTo(MaxRoads)

\* lines 76-89 of a dijkstra call; ret.st holds the local variables of the
\* call from here on
StepBegin ==
    /\ ~InCall
    /\ \E start \in QueryIds, end \in QueryIds :
          IF NamesKnown(node_names, start, end)
          THEN ret' = [op |-> "begin", st |-> DijkstraInit(graph, start, end)]
          ELSE ret' = [op |-> "dijkstra", start |-> start, end |-> end,
                       result |-> Returns(Raised(graph, "KeyError"))]
    /\ UNCHANGED <<graph, node_names>>

\* one pass of the while loop of lines 91-125; ret.before holds the local
\* variables as they were when the pass began
StepPass ==
    /\ ret.op \in {"begin", "pass"}
    /\ ret.st.pc = "loop"
    /\ LET st == DijkstraStep([ret.st EXCEPT !.graph = graph])
       IN  /\ graph' = st.graph
           /\ ret' = [op |-> "pass", before |-> ret.st, st |-> st]
    /\ UNCHANGED node_names

\* lines 128-129: path = [], current = end.  None is the empty sequence, an
\* id n is <<n>>
StepWalkBegin ==
    /\ ret.op \in {"begin", "pass"}
    /\ ret.st.pc = "done"
    /\ ret' = [op |-> "walk", st |-> ret.st, path |-> <<>>,
               current |-> <<ret.st.end>>]
    /\ UNCHANGED <<graph, node_names>>

\* lines 130-132: one pass of the walk over previous.  A path longer than the
\* number of keys of distances is not followed further.
StepWalk ==
    /\ ret.op = "walk"
    /\ ret.current # <<>>
    /\ Len(ret.path) <= Cardinality(DOMAIN ret.st.distances)
    /\ ret' = [ret EXCEPT
                 !.path    = Append(@, ret.current[1]),
                 !.current = IF ret.current[1] \in DOMAIN ret.st.previous
                             THEN <<ret.st.previous[ret.current[1]]>>
                             ELSE <<>>]
    /\ UNCHANGED <<graph, node_names>>

\* lines 133-151: the call returns
StepReturn ==
    /\ ret.op = "walk"
    /\ ret.current = <<>>
    /\ ret' = [op |-> "dijkstra", start |-> ret.st.start, end |-> ret.st.end,
               result |-> Returns(ReturnValue(ret.st, ret.path)),
               st |-> ret.st]
    /\ UNCHANGED <<graph, node_names>>

NextSteps ==
    StepAddRoad \/ StepBegin \/ StepPass \/ StepWalkBegin \/ StepWalk
    \/ StepReturn

SpecSteps == Init /\ [][NextSteps]_vars

\* a call that has been entered runs on: the interpreter executes the next
\* pass of the loop it is in, and the return once the loops are over
SpecStepsFair ==
    /\ SpecSteps
    /\ WF_vars(StepPass)
    /\ WF_vars(StepWalkBegin)
    /\ WF_vars(StepWalk)
    /\ WF_vars(StepReturn)

\* two dijkstra calls are running side by side, and one has not ended yet
InBatch ==
    /\ ret.op = "batch"
    /\ \E i \in 1 .. 2 : ret.calls[i].pc \notin {"returned", "raised"}

\* an add_road call made while no query is running
BatchAddRoad == ~InBatch /\ AddRoadUpTo(MaxBatchRoads)

\* two threads are handed one dijkstra call each on the same navigator;
\* ret.graph0 is self.graph at that moment.  A call is the record of its
\* arguments, its position pc, its local variables st and what it returned
\* or raised; used and seen belong to the iterator over self.graph of line 76
BatchStart ==
    /\ ~InBatch
    /\ \E s1 \in QueryIds, e1 \in QueryIds, s2 \in QueryIds, e2 \in QueryIds :
          LET call(s, e) == [start |-> s, end |-> e, pc |-> "enter",
                             used |-> 0, seen |-> 0, st |-> <<>>,
                             result |-> <<>>]
          IN  ret' = [op |-> "batch", graph0 |-> graph,
                      calls |-> <<call(s1, e1), call(s2, e2)>>]
    /\ UNCHANGED <<graph, node_names>>

\* line 76, iter(self.graph): the dict iterator remembers the number of keys
CallEnter(i) ==
    /\ ret.op = "batch"
    /\ ret.calls[i].pc = "enter"
    /\ ret' = [ret EXCEPT !.calls[i].pc   = "iter",
                          !.calls[i].used = Cardinality(DOMAIN graph)]
    /\ UNCHANGED <<graph, node_names>>

\* line 76, one next() of the dict iterator: RuntimeError ("dictionary
\* changed size during iteration") when the number of keys is not the one
\* remembered, else the next key; when no key is left, lines 77-89 follow
CallIter(i) ==
    /\ ret.op = "batch"
    /\ ret.calls[i].pc = "iter"
    /\ LET c == ret.calls[i]
       IN  ret' = [ret EXCEPT !.calls[i] =
               IF Cardinality(DOMAIN graph) # c.used
               THEN [c EXCEPT !.pc = "raised",
                              !.result = Returns(Raised(graph, "RuntimeError"))]
               ELSE IF c.seen < c.used
               THEN [c EXCEPT !.seen = @ + 1]
               ELSE IF ~NamesKnown(node_names, c.start, c.end)
               THEN [c EXCEPT !.pc = "raised",
                              !.result = Returns(Raised(graph, "KeyError"))]
               ELSE [c EXCEPT !.pc = "loop",
                              !.st = DijkstraInit(graph, c.start, c.end)]]
    /\ UNCHANGED <<graph, node_names>>

\* lines 91-125: one pass of the while loop of call i
CallPass(i) ==
    /\ ret.op = "batch"
    /\ ret.calls[i].pc = "loop"
    /\ LET st == DijkstraStep([ret.calls[i].st EXCEPT !.graph = graph])
       IN  /\ graph' = st.graph
           /\ ret' = [ret EXCEPT !.calls[i].st = st, !.calls[i].pc = st.pc]
    /\ UNCHANGED node_names

\* lines 127-151 of call i, which read local variables only
CallReturn(i) ==
    /\ ret.op = "batch"
    /\ ret.calls[i].pc = "done"
    /\ ret' = [ret EXCEPT
                 !.calls[i].pc     = "returned",
                 !.calls[i].result = Returns(DijkstraResult(ret.calls[i].st))]
    /\ UNCHANGED <<graph, node_names>>

CallStep(i) == CallEnter(i) \/ CallIter(i) \/ CallPass(i) \/ CallReturn(i)

NextBatch == BatchAddRoad \/ BatchStart \/ \E i \in 1 .. 2 : CallStep(i)

SpecBatch == Init /\ [][NextBatch]_vars

RouteDistances == (0 - MaxRouteDistance) .. MaxRouteDistance

Speeds == (0 - MaxSpeed) .. MaxSpeed

\* the argument lists of a calculate_route_time call: the speed may be left out
RouteTimeArgs ==
    {[distance_km |-> d] : d \in RouteDistances}
    \cup {[distance_km |-> d, avg_speed_kmh |-> v] :
            d \in RouteDistances, v \in Speeds}

\* a navigator about to be asked for a travel time
InitRouteTime ==
    /\ graph = <<>>
    /\ node_names = Locations
    /\ ret \in {[op |-> "call", args |-> a] : a \in RouteTimeArgs}

\* the calculate_route_time call
CalculateRouteTime ==
    /\ ret.op = "call"
    /\ LET avg_speed_kmh == IF "avg_speed_kmh" \in DOMAIN ret.args
                            THEN ret.args.avg_speed_kmh ELSE DefaultSpeed
       IN  ret' = [op |-> "route_time", args |-> ret.args,
                   result |-> calculate_route_time(ret.args.distance_km,
                                                   avg_speed_kmh)]
    /\ UNCHANGED <<graph, node_names>>

SpecRouteTime == InitRouteTime /\ [][CalculateRouteTime]_vars

(* ------------------------ reference definitions ----------------------- *)

\* every recorded road length is non-negative
NonNegative(g) ==
    \A n \in DOMAIN g : \A i \in 1 .. Len(g[n]) : g[n][i][2] >= 0

\* the lengths of the roads recorded from a to b
RoadWeights(g, a, b) ==
    {Adj(g, a)[i][2] : i \in {j \in 1 .. Len(Adj(g, a)) : Adj(g, a)[j][1] = b}}

HasRoad(g, a, b) == RoadWeights(g, a, b) # {}

\* the lightest road recorded from a to b
LeastRoad(g, a, b) ==
    IF HasRoad(g, a, b) THEN Min(RoadWeights(g, a, b)) ELSE Infinity

NoRepeat(p) == \A i, j \in DOMAIN p : i # j => p[i] # p[j]

\* brute force: every route from s to d that repeats no node
SimpleRoutes(g, s, d) ==
    {p \in UNION {[1 .. k -> Locations] : k \in 1 .. NumLocations} :
        /\ p[1] = s
        /\ p[Len(p)] = d
        /\ NoRepeat(p)
        /\ \A i \in 1 .. Len(p) - 1 : HasRoad(g, p[i], p[i + 1])}

\* total length of a route, each segment by its lightest road
RECURSIVE RouteWeightFrom(_, _, _)
RouteWeightFrom(g, p, i) ==
    IF i >= Len(p) THEN 0
    ELSE LeastRoad(g, p[i], p[i + 1]) + RouteWeightFrom(g, p, i + 1)

RouteWeight(g, p) == RouteWeightFrom(g, p, 1)

Reachable(g, s, d) == SimpleRoutes(g, s, d) # {}

ShortestDistance(g, s, d) == Min({RouteWeight(g, p) : p \in SimpleRoutes(g, s, d)})

\* the last call was dijkstra(ret.start, ret.end)
IsQuery == ret.op = "dijkstra"

\* both ids of the last query are registered locations
BothExist == ret.start \in node_names /\ ret.end \in node_names

Returned == IsQuery /\ ret.result.raised = "none"

Succeeded == Returned /\ ret.result.success

(* ------------------------------ properties ---------------------------- *)

\* C1: on a graph whose road lengths are all non-negative, a query whose
\* destination is reachable from its source returns success with a path from
\* the source to the destination, and the reported distance is the least
\* total length over all routes between them.
C1_Optimality ==
    (IsQuery /\ BothExist /\ NonNegative(graph)
       /\ Reachable(graph, ret.start, ret.end))
    => /\ Succeeded
       /\ ret.result.path # <<>>
       /\ ret.result.path[1] = ret.start
       /\ ret.result.path[Len(ret.result.path)] = ret.end
       /\ ret.result.distance = ShortestDistance(graph, ret.start, ret.end)

\* a detour over a third location beats the direct road
C1_Witness ==
    /\ Succeeded
    /\ NonNegative(graph)
    /\ Len(ret.result.path) = 3
    /\ HasRoad(graph, ret.start, ret.end)
    /\ ret.result.distance < LeastRoad(graph, ret.start, ret.end)

\* C2: for every successful query the road lengths along the consecutive
\* pairs of the returned path (the lightest road of each pair) add up to the
\* returned distance.
C2_PathWeightIsDistance ==
    Succeeded => ret.result.distance = RouteWeight(graph, ret.result.path)

C2_Witness ==
    /\ Succeeded
    /\ Len(ret.result.path) = 3
    /\ ret.result.distance > 0
    /\ \E a, b \in Locations : Cardinality(RoadWeights(graph, a, b)) > 1

\* C3: whenever B is reachable from A, dijkstra(A, B) and dijkstra(B, A)
\* report the same distance on the same graph.
C3_Symmetry ==
    (IsQuery /\ BothExist /\ Reachable(graph, ret.start, ret.end))
    => ret.result.distance =
         dijkstra(graph, node_names, ret.end, ret.start).distance

\* C4: a query between two registered locations of which the second is not
\* reachable from the first returns normally with success = False, an empty
\* path and distance infinity.
C4_UnreachableIsAResult ==
    (IsQuery /\ BothExist /\ ~Reachable(graph, ret.start, ret.end))
    => /\ ret.result.raised = "none"
       /\ ret.result.success = FALSE
       /\ ret.result.path = <<>>
       /\ ret.result.distance = Infinity

\* the source has no road at all, the destination has one
C4_Witness ==
    /\ Returned
    /\ BothExist
    /\ ~Reachable(graph, ret.start, ret.end)
    /\ Adj(graph, ret.start) = <<>>
    /\ Adj(graph, ret.end) # <<>>
    /\ ret.result.success = FALSE

\* C5: every consecutive pair of a successfully returned path is a recorded
\* entry of the adjacency list of its first node, so the lookup of
\* get_turn_by_turn_directions finds a distance for it, and no node occurs
\* twice in the path.
C5_PathConsistent ==
    Succeeded
    => /\ \A i \in 1 .. Len(ret.result.path) - 1 :
            FindDistance(graph, ret.result.path[i], ret.result.path[i + 1]).found
       /\ NoRepeat(ret.result.path)

\* a path through every location, one of which has a road to itself
C5_Witness ==
    /\ Succeeded
    /\ Len(ret.result.path) = NumLocations
    /\ \E a \in Locations : HasRoad(graph, a, a)

\* C6: dijkstra(A, A) on a registered location A returns success, path [A]
\* and distance 0, and the diagonal of the all-pairs matrices holds the same
\* distance 0 and path [A].
C6_SourceIsDestination ==
    /\ (IsQuery /\ BothExist /\ ret.start = ret.end)
       => /\ Succeeded
          /\ ret.result.path = <<ret.start>>
          /\ ret.result.distance = 0
          /\ AllPairsEntry(graph, node_names, ret.start, ret.end).distance
               = ret.result.distance
          /\ AllPairsEntry(graph, node_names, ret.start, ret.end).path
               = ret.result.path
    /\ ret.op = "all_pairs"
       => \A a \in node_names :
            /\ ret.distance_matrix[<<a, a>>] = 0
            /\ ret.path_matrix[<<a, a>>] = <<a>>
            /\ dijkstra(graph, node_names, a, a).success
            /\ dijkstra(graph, node_names, a, a).distance = 0
            /\ dijkstra(graph, node_names, a, a).path = <<a>>

\* the location queried has roads, one of them of negative length
C6_Witness ==
    /\ Succeeded
    /\ ret.start = ret.end
    /\ Len(Adj(graph, ret.start)) > 1
    /\ ~NonNegative(graph)

\* C7: a query whose source or destination is not a registered location
\* ends in an error, returns no result, and no key is ever added to the
\* graph for an id that is not registered.
C7_NodeNotFound ==
    /\ (IsQuery /\ ~BothExist)
       => /\ ret.result.raised = "KeyError"
          /\ ret.result.success = FALSE
          /\ ret.result.path = <<>>
    /\ DOMAIN graph \subseteq node_names

\* the destination is missing, the source is registered and has a road
C7_Witness ==
    /\ IsQuery
    /\ ret.start \in node_names
    /\ ret.end \notin node_names
    /\ Adj(graph, ret.start) # <<>>
    /\ ret.result.raised = "KeyError"

\* C8: no adjacency list ever contains a negative road length.
C8_NoNegativeWeight == NonNegative(graph)

\* number of entries (b, w) in the adjacency list of a
Count(g, a, b, w) ==
    Cardinality({i \in 1 .. Len(Adj(g, a)) : Adj(g, a)[i] = <<b, w>>})

EdgeSymmetry(g) ==
    \A a \in DOMAIN g : \A i \in 1 .. Len(g[a]) :
        LET b == g[a][i][1]
            w == g[a][i][2]
        IN  /\ b \in DOMAIN g
            /\ Count(g, a, b, w) = Count(g, b, a, w)

\* C9: in the navigator's graph, and in the graph of a navigator whose road
\* lengths a traffic scenario has multiplied, (B, w) occurs in the list of A
\* as often as (A, w) occurs in the list of B, and every neighbor is a key.
C9_EdgeSymmetry ==
    /\ EdgeSymmetry(graph)
    /\ ret.op = "traffic" => EdgeSymmetry(ret.modified)

\* a scenario has changed the length of a road that has a parallel road
C9_Witness ==
    /\ ret.op = "traffic"
    /\ ConstructedGraph(ret.modified) # ret.fresh
    /\ \E a, b \in Locations : a # b /\ Len(Adj(ret.fresh, a)) > 1
                               /\ Cardinality(RoadWeights(ret.fresh, a, b)) > 1

\* C10: a dijkstra call leaves the graph mapping as it was: the same keys
\* and the same adjacency lists.
C10_QueryReadOnly == [][ret'.op = "dijkstra" => graph' = graph]_vars

\* C11: a dijkstra call with the arguments of an earlier call, made after
\* any number of other queries and no add_road, returns the path, distance,
\* visited set, steps trace and success flag (or raises the error) of the
\* earlier call.
C11_Idempotent ==
    (ret.op = "repeat" /\ ret.again) => ret.result = ret.first.result

\* a successful query is repeated after a query that inserted a key
C11_Witness ==
    /\ ret.op = "repeat"
    /\ ret.again
    /\ ret.others
    /\ graph # ret.first.graph
    /\ ret.result.raised = "none"
    /\ ret.result.success
    /\ Len(ret.result.path) > 1

\* every consecutive pair of the path handed over is a recorded road
PairsAreRoads(g, path) ==
    \A i \in 1 .. Len(path) - 1 : HasRoad(g, path[i], path[i + 1])

\* C12: for a path of k >= 2 ids whose consecutive pairs are roads,
\* get_turn_by_turn_directions returns k lines numbered 1 .. k: line 1 is
\* "Start at" path[0], lines 2 .. k-1 are "Continue to" path[i] and line k is
\* "Arrive at" path[k-1], each with a recorded length of the road from the
\* id before; for a path of fewer than 2 ids it returns the empty list.
C12_DirectionsFormat ==
    ret.op = "directions"
    => LET path == ret.path
           k    == Len(ret.path)
           d    == ret.directions
       IN  /\ k < 2 => (ret.raised = "none" /\ d = <<>>)
           /\ (k >= 2 /\ PairsAreRoads(graph, path))
              => /\ ret.raised = "none"
                 /\ Len(d) = k
                 /\ \A j \in 1 .. k : d[j].num = j
                 /\ d[1] = [num |-> 1, verb |-> "Start at", node |-> path[1]]
                 /\ \A j \in 2 .. k :
                      /\ d[j].verb = (IF j = k THEN "Arrive at"
                                      ELSE "Continue to")
                      /\ d[j].node = path[j]
                      /\ d[j].distance \in RoadWeights(graph, path[j - 1],
                                                        path[j])

\* directions over two roads of different lengths
C12_Witness ==
    /\ ret.op = "directions"
    /\ ret.raised = "none"
    /\ Len(ret.directions) = 3
    /\ ret.directions[2].verb = "Continue to"
    /\ ret.directions[2].distance # ret.directions[3].distance
    /\ ret.path[1] # ret.path[3]

\* the local variables of the dijkstra call that is followed step by step
HasFrame ==
    \/ ret.op \in {"begin", "pass", "walk"}
    \/ ret.op = "dijkstra" /\ "st" \in DOMAIN ret

\* the "Exploring" lines of a steps trace, in the order they were appended
Explored(steps) == SelectSeq(steps, LAMBDA line : line[1] = "Exploring")

\* a pass of the while loop has just ended, and the entry it popped was e
PassPopped(e) ==
    /\ ret.op = "pass"
    /\ ret.before.priority_queue # {}
    /\ e = HeapMin(ret.before.priority_queue)

\* the pass that has just ended popped an entry of a node already in visited
SkipPass == \E e \in ret.before.priority_queue :
                PassPopped(e) /\ e[2] \in ret.before.visited

\* the pass that has just ended added node n, popped at distance d, to visited
FinalizePass(d, n) == PassPopped(<<d, n>>) /\ n \notin ret.before.visited

\* C16: in a dijkstra run no node gets two "Exploring" lines, and the nodes
\* with such a line are the nodes in visited; a pass that pops an entry whose
\* node is in visited removes that entry from the frontier and changes
\* nothing else.
C16_LazyDeletion ==
    /\ HasFrame
       => LET x == Explored(ret.st.steps)
          IN  /\ \A i, j \in 1 .. Len(x) : i # j => x[i][2] # x[j][2]
              /\ {x[i][2] : i \in 1 .. Len(x)} = ret.st.visited
    /\ (ret.op = "pass" /\ SkipPass)
       => /\ ret.st = [ret.before EXCEPT !.priority_queue =
                          @ \ {HeapMin(ret.before.priority_queue)}]
          /\ graph = ret.before.graph

\* a stale entry of a node with two roads from the start has been discarded
C16_Witness ==
    /\ ret.op = "pass"
    /\ SkipPass
    /\ Cardinality(ret.st.visited) > 1
    /\ ret.st.pc = "loop"

\* the call followed step by step has returned a result
StepsReturned == ret.op = "dijkstra" /\ "st" \in DOMAIN ret

HasReachedLine(steps) == \E i \in 1 .. Len(steps) : steps[i][1] = "Reached"

\* C17: the pass that adds the destination to visited ends the search: it
\* appends the "Exploring" and the "Reached" line, removes the popped entry
\* and changes no distance, predecessor or other frontier entry; no pass
\* follows it, so the destination is the last node added to visited; and
\* the trace has the "Reached" line exactly when the result has success.
C17_EarlyTermination ==
    /\ ret.op = "pass"
       => \A e \in ret.before.priority_queue :
            (FinalizePass(e[1], e[2]) /\ e[2] = ret.before.end)
            => /\ ret.st = [ret.before EXCEPT
                              !.priority_queue = @ \ {e},
                              !.visited = @ \cup {e[2]},
                              !.steps = @ \o << <<"Exploring", e[2], e[1]>>,
                                                <<"Reached", e[2], 0>> >>,
                              !.pc = "done"]
               /\ graph = ret.before.graph
    /\ ret.op = "pass"
       => (ret.before.pc = "loop" /\ ret.before.end \notin ret.before.visited)
    /\ (HasFrame /\ ret.st.end \in ret.st.visited)
       => LET x == Explored(ret.st.steps)
          IN  /\ ret.st.pc = "done"
              /\ x[Len(x)][2] = ret.st.end
              /\ HasReachedLine(ret.st.steps)
    /\ (HasFrame /\ HasReachedLine(ret.st.steps))
       => ret.st.end \in ret.st.visited
    /\ StepsReturned
       => (ret.result.success <=> HasReachedLine(ret.result.steps))

\* the search has ended at a destination that has a road to a location the
\* search never reached
C17_Witness ==
    /\ StepsReturned
    /\ ret.result.success
    /\ Len(ret.result.path) > 1
    /\ \E i \in 1 .. Len(Adj(graph, ret.end)) :
          LET neighbor == Adj(graph, ret.end)[i][1]
          IN  /\ neighbor \notin ret.st.visited
              /\ ret.st.distances[neighbor] = Infinity

\* the distances of the "Exploring" lines never go down along the trace
ExploredInOrder(steps) ==
    LET x == Explored(steps)
    IN  \A i, j \in 1 .. Len(x) : i < j => x[i][3] <= x[j][3]

\* C18: on a graph whose road lengths are all non-negative, the distance a
\* node is popped with when it is added to visited is its entry of the
\* distance table and the least total length of a route from the start to
\* it; the nodes are added to visited in non-decreasing order of distance,
\* and once the destination is in visited no node of visited is farther from
\* the start than the destination.
C18_LabelSetting ==
    NonNegative(graph)
    => /\ ret.op = "pass"
          => \A e \in ret.before.priority_queue :
               FinalizePass(e[1], e[2])
               => /\ e[1] = ret.before.distances[e[2]]
                  /\ e[1] = ret.st.distances[e[2]]
                  /\ e[1] = ShortestDistance(graph, ret.st.start, e[2])
       /\ HasFrame => ExploredInOrder(ret.st.steps)
       /\ (HasFrame /\ ret.st.end \in ret.st.visited)
          => \A v \in ret.st.visited :
               ShortestDistance(graph, ret.st.start, v)
                 <= ShortestDistance(graph, ret.st.start, ret.st.end)

\* a node is added to visited at a distance over a third location that is
\* shorter than its road from the start, a longer entry for it being left
C18_Witness ==
    /\ NonNegative(graph)
    /\ ret.op = "pass"
    /\ \E e \in ret.before.priority_queue :
          /\ FinalizePass(e[1], e[2])
          /\ HasRoad(graph, ret.st.start, e[2])
          /\ e[1] < LeastRoad(graph, ret.st.start, e[2])
          /\ \E f \in ret.st.priority_queue : f[2] = e[2] /\ f[1] > e[1]

\* the local variables right after lines 92-103 of a pass that popped the
\* entry e from the frame before and explores its node
AfterPop(before, e) ==
    [before EXCEPT !.priority_queue = @ \ {e},
                   !.visited        = @ \cup {e[2]},
                   !.steps          = Append(@, <<"Exploring", e[2], e[1]>>),
                   !.graph          = Touch(@, e[2])]

\* the local variables after the first k entries of the adjacency list of
\* the node of e have been looked at
AfterEntries(before, e, k) ==
    Relax(AfterPop(before, e), e[2], e[1],
          SubSeq(Adj(before.graph, e[2]), 1, k), 1)

\* what looking at the entry (m, w) of the node n popped at distance d may
\* do to the local variables a, giving b
Disciplined(a, b, n, d, m, w) ==
    /\ DOMAIN b.distances = DOMAIN a.distances
    /\ \A k \in DOMAIN a.distances : k # m => b.distances[k] = a.distances[k]
    /\ b.visited = a.visited
    /\ IF m \notin a.visited /\ d + w < a.distances[m]
       THEN /\ b.distances[m] = d + w
            /\ m \in DOMAIN b.previous
            /\ b.previous[m] = n
            /\ \A k \in DOMAIN a.previous :
                 k # m => (k \in DOMAIN b.previous
                           /\ b.previous[k] = a.previous[k])
            /\ DOMAIN b.previous = DOMAIN a.previous \cup {m}
            /\ <<d + w, m>> \notin a.priority_queue
            /\ b.priority_queue = a.priority_queue \cup {<<d + w, m>>}
       ELSE /\ b.distances = a.distances
            /\ b.previous = a.previous
            /\ b.priority_queue = a.priority_queue

\* C19: during a run no distance ever goes up; a pass that explores no
\* neighbors leaves distances and previous alone; and each entry (m, w) of
\* the node n just added to visited at distance d changes the distance of m
\* only, only when m is not in visited and d + w is strictly smaller, and
\* then sets previous[m] to n and pushes the one entry (d + w, m).
C19_RelaxationDiscipline ==
    ret.op = "pass"
    => /\ DOMAIN ret.st.distances = DOMAIN ret.before.distances
       /\ \A k \in DOMAIN ret.st.distances :
            ret.st.distances[k] <= ret.before.distances[k]
       /\ (ret.before.priority_queue = {} \/ SkipPass \/ ret.st.pc = "done")
          => /\ ret.st.distances = ret.before.distances
             /\ ret.st.previous = ret.before.previous
       /\ \A e \in ret.before.priority_queue :
            (FinalizePass(e[1], e[2]) /\ e[2] # ret.before.end)
            => LET adj == Adj(ret.before.graph, e[2])
               IN  /\ ret.st = AfterEntries(ret.before, e, Len(adj))
                   /\ \A i \in 1 .. Len(adj) :
                        Disciplined(AfterEntries(ret.before, e, i - 1),
                                    AfterEntries(ret.before, e, i),
                                    e[2], e[1], adj[i][1], adj[i][2])

\* one pass lowers a distance that was finite already and meets an entry
\* whose candidate equals the distance of its unvisited node
C19_Witness ==
    /\ ret.op = "pass"
    /\ \E e \in ret.before.priority_queue :
          /\ FinalizePass(e[1], e[2])
          /\ e[2] # ret.before.end
          /\ LET adj == Adj(ret.before.graph, e[2])
             IN  /\ \E i \in 1 .. Len(adj) :
                      LET a == AfterEntries(ret.before, e, i - 1)
                      IN  /\ adj[i][1] \notin a.visited
                          /\ e[1] + adj[i][2] < a.distances[adj[i][1]]
                          /\ a.distances[adj[i][1]] < Infinity
                 /\ \E i \in 1 .. Len(adj) :
                      LET a == AfterEntries(ret.before, e, i - 1)
                      IN  /\ adj[i][1] \notin a.visited
                          /\ e[1] + adj[i][2] = a.distances[adj[i][1]]

\* following previous from n ends within fuel lookups at a node that has no
\* predecessor
RECURSIVE ChainEnds(_, _, _)
ChainEnds(previous, n, fuel) ==
    IF n \notin DOMAIN previous THEN TRUE
    ELSE IF fuel = 0 THEN FALSE
    ELSE ChainEnds(previous, previous[n], fuel - 1)

\* the start has no predecessor, no chain of predecessors runs in a circle,
\* and the walk of lines 130-132 is never longer than the distance table
ChainsEnd ==
    /\ HasFrame
       => /\ ret.st.start \notin DOMAIN ret.st.previous
          /\ \A n \in DOMAIN ret.st.previous :
               ChainEnds(ret.st.previous, n, Cardinality(DOMAIN ret.st.previous))
    /\ (ret.op = "walk" /\ ret.current # <<>>)
       => Len(ret.path) < Cardinality(DOMAIN ret.st.distances)

\* C20: every dijkstra call between registered locations that has begun
\* returns: the while loop ends, with the destination in visited or the
\* frontier empty, and the walk over previous ends, the start never having a
\* predecessor and no chain of predecessors running in a circle.
C20_Termination ==
    /\ [](ChainsEnd)
    /\ [](HasFrame /\ ret.st.pc = "done"
            => (ret.st.end \in ret.st.visited \/ ret.st.priority_queue = {}))
    /\ (ret.op = "begin") ~> StepsReturned

\* a call has returned a path over three locations after a walk of three
\* lookups, with entries left in the frontier
C20_Witness ==
    /\ StepsReturned
    /\ ret.result.success
    /\ Len(ret.result.path) = 3
    /\ ret.st.priority_queue # {}

\* C15: of two dijkstra calls run side by side on one navigator, with no
\* add_road call, each ends with the result it has when it is run alone on
\* the graph the two were started on.
C15_QueryIsolation ==
    ret.op = "batch"
    => \A i \in 1 .. 2 :
         ret.calls[i].pc \in {"returned", "raised"}
         => ret.calls[i].result
              = Returns(dijkstra(ret.graph0, node_names, ret.calls[i].start,
                                 ret.calls[i].end))

\* a calculate_route_time call has returned or raised
TimeAsked == ret.op = "route_time"

SpeedGiven == "avg_speed_kmh" \in DOMAIN ret.args

\* C13: calculate_route_time raises an error for every average speed that
\* is zero or negative, and returns no value for it.
C13_NonPositiveSpeedFails ==
    (TimeAsked /\ SpeedGiven /\ ret.args.avg_speed_kmh <= 0)
    => ret.result.raised # "none"

\* C14: for every distance and every positive speed calculate_route_time
\* returns the number of minutes m with m * speed = distance * 60, the speed
\* being 30 when it is left out; calculate_route_time(60, 30) is 120.
C14_RouteTime ==
    /\ (TimeAsked /\ SpeedGiven /\ ret.args.avg_speed_kmh > 0)
       => /\ ret.result.raised = "none"
          /\ ret.result.minutes.den > 0
          /\ ret.result.minutes.num * ret.args.avg_speed_kmh * 10
               = ret.args.distance_km * 60 * ret.result.minutes.den
    /\ (TimeAsked /\ ~SpeedGiven)
       => /\ ret.result.raised = "none"
          /\ ret.result.minutes.den > 0
          /\ ret.result.minutes.num * 30 * 10
               = ret.args.distance_km * 60 * ret.result.minutes.den
    /\ (TimeAsked /\ ret.args = [distance_km |-> 600, avg_speed_kmh |-> 30])
       => ret.result = [raised |-> "none",
                        minutes |-> [num |-> 120, den |-> 1]]

\* 7.0 km with the speed left out take 14 minutes
C14_Witness ==
    /\ TimeAsked
    /\ ret.args = [distance_km |-> 70]
    /\ ret.result.raised = "none"
    /\ ret.result.minutes = [num |-> 14, den |-> 1]

\* the lengths annotated on the lines 2 .. Len(d) of directions d, added up
RECURSIVE AnnotatedFrom(_, _)
AnnotatedFrom(d, j) ==
    IF j > Len(d) THEN 0 ELSE d[j].distance + AnnotatedFrom(d, j + 1)

AnnotatedTotal(d) == AnnotatedFrom(d, 2)

\* C21: for every successful dijkstra result, parallel roads of different
\* lengths included, the lengths get_turn_by_turn_directions annotates on the
\* lines for the returned path add up to the returned distance (stated for
\* the graphs whose road lengths are all non-negative).
C21_DirectionsSumToDistance ==
    (ret.op = "route" /\ ret.asked /\ NonNegative(graph))
    => /\ ret.raised = "none"
       /\ AnnotatedTotal(ret.directions) = ret.result.distance

C23_EdgeNotFound ==
    [][(/\ ret'.op = "directions"
        /\ Len(ret'.path) >= 2
        /\ ~PairsAreRoads(graph, ret'.path))
       => /\ ret'.raised # "none"
          /\ ret'.directions = <<>>
          /\ graph' = graph]_vars

====
